---- MODULE Spec2Model ----
(***************************************************************************)
(* Viveo frontend: the daily nutrition ledger (foodLog.js), the goal       *)
(* profile (profile.js), the undo stack of deleted entries and the         *)
(* session handling of app.js, as a state machine.                         *)
(*                                                                         *)
(* JavaScript runs one handler at a time; an async handler runs up to its  *)
(* first await in one step (the *_call actions) and continues in a later   *)
(* step when the awaited fetch settles (the *_response actions).  The     *)
(* calls that are awaiting are kept in `pending` with their captured       *)
(* locals.  The backend is not part of the repository's sources: its       *)
(* responses are inputs, drawn from the bounded sets below.                *)
(***************************************************************************)
EXTENDS Integers, Sequences, FiniteSets, TLC

VARIABLES
    currentUser,          \* config.js: let currentUser (NoUser is null)
    foodEntries,          \* config.js: let foodEntries
    calorieData,          \* config.js: let calorieData {intake, target, left}
    userProfile,          \* config.js: let userProfile
    deletedEntriesStack,  \* foodLog.js: let deletedEntriesStack, newest first
    now,                  \* Date.now(), in milliseconds since page load
    pending,              \* async handler calls that are awaiting a response
    foodLogMessage,       \* the .food-log-message element (last notice shown)
    profileMessage,       \* the #profileMessage element
    progressFill,         \* the #progressFill element: width and background
    macroDisplay,         \* #proteinValue, #carbsValue, #fatValue (grams left)
    viveo_profile,        \* localStorage['viveo_profile']
    viveo_day,            \* localStorage['viveo_day_<today>']
    undoable,             \* history: entries removed by deleteFoodEntry and
                          \* not yet restored by undoLastDelete, newest first
    lastDelete,           \* history: the totals before the deletion that has
                          \* just completed (NoTotals after any other step)
    deleteFailed,         \* history: some deletion has failed
    currentDate,          \* config.js: let currentDate, as a date string
    exported,             \* the file that exportProfile downloads
    logButton,            \* the '#foodLogSection button' element
    aiChatPanel,          \* the #aiChatPanel element and its style.display
    aiChatOpen,           \* window.aiChatOpen
    server,               \* the entries that the backend holds for today
    viveo_data            \* localStorage['viveo_data_<user>_<date>'], by date

vars == <<currentUser, foodEntries, calorieData, userProfile, deletedEntriesStack,
          now, pending, foodLogMessage, profileMessage, progressFill, macroDisplay,
          viveo_profile, viveo_day, undoable, lastDelete, deleteFailed, currentDate,
          exported, logButton, aiChatPanel, aiChatOpen, server, viveo_data>>

(***************************************************************************)
(* Bounds of the model.                                                    *)
(***************************************************************************)
MaxEntries == 2
MaxTicks == 2
MaxUndoDepth == 2
MaxInFlight == 2
MaxGenIds == 1

\* One clock step: 200 s, so that one step is less and two steps are more
\* than the five minutes of the undo stack.
TickMs == 200 * 1000

(***************************************************************************)
(* Program constants.                                                      *)
(***************************************************************************)
MAX_UNDO_STACK == 10
FIVE_MINUTES == 5 * 60 * 1000
DEFAULT_TARGET == 1764

NoUser == "null"
Users == {"alice"}

(***************************************************************************)
(* JavaScript values as they arrive in a JSON response or a form field.    *)
(***************************************************************************)
JsNum(n) == [t |-> "number", v |-> n]
JsNumStr(n) == [t |-> "numeric string", v |-> n]
JsText == [t |-> "text", v |-> 0]
JsNull == [t |-> "null", v |-> 0]
JsUndefined == [t |-> "undefined", v |-> 0]
JsNaN == [t |-> "NaN", v |-> 0]

\* Number(x)
ToNumber(x) ==
    CASE x.t = "number" -> x
      [] x.t = "numeric string" -> JsNum(x.v)
      [] x.t = "null" -> JsNum(0)
      [] OTHER -> JsNaN

\* Number(x) || 0
NumberOrZero(x) ==
    LET n == ToNumber(x) IN IF n.t = "NaN" THEN 0 ELSE n.v

Max(a, b) == IF a >= b THEN a ELSE b
Min(a, b) == IF a <= b THEN a ELSE b
Abs(a) == IF a < 0 THEN -a ELSE a

RECURSIVE Gcd(_, _)
Gcd(a, b) == IF b = 0 THEN a ELSE Gcd(b, a % b)

RemoveAt(s, k) == [j \in 1..(Len(s) - 1) |-> IF j < k THEN s[j] ELSE s[j + 1]]

(***************************************************************************)
(* Food entries.  An id is a backend entry_id or a generateId() value.     *)
(***************************************************************************)
BackendId(n) == [src |-> "backend", n |-> n]
GenId(n) == [src |-> "generated", n |-> n]
NoId == [src |-> "none", n |-> 0]

\* The days of the calendar: the day of the page load and another one.
Today == "today"
Dates == {"today", "yesterday"}
EarlierDates == {"yesterday", "last week"}
NoDate == "none"

\* An entry carries, besides the fields of the code, `ledger`: the date_str of
\* the request it was logged with or loaded by (the backend's ledger that holds
\* it).  The code keeps no such field; the properties about dates read it.
NoEntry == [id |-> NoId, calories |-> 0, protein |-> 0, carbs |-> 0, fat |-> 0, fiber |-> 0,
            ledger |-> NoDate]
Dated(entry, date) == [entry EXCEPT !.ledger = date]
DatedAll(entries, date) == [j \in 1..Len(entries) |-> Dated(entries[j], date)]

\* What the backend holds for an entry, in the field names of its JSON.
RawChicken == [entry_id |-> BackendId(1), calories |-> JsNum(350), protein |-> JsNum(35),
               carbs |-> JsNum(30), fats |-> JsNum(8), fiber |-> JsNum(2)]
RawSalad == [entry_id |-> BackendId(2), calories |-> JsNumStr(180), protein |-> JsNum(4),
             carbs |-> JsNum(12), fats |-> JsNum(15), fiber |-> JsNull]
RawFeast == [entry_id |-> BackendId(3), calories |-> JsNum(1600), protein |-> JsNum(90),
             carbs |-> JsNum(150), fats |-> JsNum(60), fiber |-> JsNum(10)]

\* A record with a negative, a missing and a non-numeric value.
RawRefund == [entry_id |-> BackendId(4), calories |-> JsNum(-50), protein |-> JsUndefined,
              carbs |-> JsText, fats |-> JsNum(0), fiber |-> JsNumStr(3)]

LedgerCatalog == {RawChicken, RawSalad}
CoercionCatalog == {RawChicken, RawRefund}
CapacityCatalog == {RawChicken}
ProfileCatalog == {RawChicken, RawSalad, RawFeast}

\* The ids in use anywhere in the page's state.
IdsIn(entries) == {entries[j].id : j \in 1..Len(entries)}
KeptIds ==
    {deletedEntriesStack[j].entry.id : j \in 1..Len(deletedEntriesStack)}
    \cup {pending[j].entry.id : j \in 1..Len(pending)}
    \cup IdsIn(undoable)
    \cup IdsIn(viveo_day.foodEntries)
UsedIds == IdsIn(foodEntries) \cup KeptIds

\* generateId(): 'id_' + Date.now() + '_' + random, a value no other entry has.
\* The model draws the smallest generated id that is not in use.
CanGenerateId(used) == \E n \in 1..MaxGenIds : GenId(n) \notin used
generateId(used) ==
    GenId(CHOOSE n \in 1..MaxGenIds :
            /\ GenId(n) \notin used
            /\ \A m \in 1..(n - 1) : GenId(m) \in used)

\* The entry that logFood and loadFoodEntriesForDate build from a backend record.
EntryFromBackend(raw, used) ==
    [id |-> IF raw.entry_id.src = "none" THEN generateId(used) ELSE raw.entry_id,
     calories |-> NumberOrZero(raw.calories),
     protein |-> NumberOrZero(raw.protein),
     carbs |-> NumberOrZero(raw.carbs),
     fat |-> NumberOrZero(raw.fats),
     fiber |-> NumberOrZero(raw.fiber),
     ledger |-> NoDate]

\* parseFood(foodText): one food of 100 g; the values are per 100 g here
\* (the source's per-gram values times 100).
parseFood == <<[quantity |-> 100, calories |-> 200, protein |-> 15, carbs |-> 25, fat |-> 8]>>

\* calculateNutrition: Math.round(perGram * quantity); exact for these values.
calculateNutrition(food) ==
    [calories |-> (food.calories * food.quantity) \div 100,
     protein |-> (food.protein * food.quantity) \div 100,
     carbs |-> (food.carbs * food.quantity) \div 100,
     fat |-> (food.fat * food.quantity) \div 100]

\* The entry of logFood's offline fallback.
OfflineEntry(used) ==
    IF Len(parseFood) > 0
    THEN LET n == calculateNutrition(parseFood[1]) IN
         [id |-> generateId(used), calories |-> n.calories, protein |-> n.protein,
          carbs |-> n.carbs, fat |-> n.fat, fiber |-> 0, ledger |-> NoDate]
    ELSE [id |-> generateId(used), calories |-> 200, protein |-> 15,
          carbs |-> 25, fat |-> 8, fiber |-> 3, ledger |-> NoDate]

(***************************************************************************)
(* The ledger totals and their display.                                    *)
(***************************************************************************)
RECURSIVE SumField(_, _)
SumField(entries, f) ==
    IF entries = <<>> THEN 0
    ELSE SumField(SubSeq(entries, 1, Len(entries) - 1), f) + entries[Len(entries)][f]

\* Variant of updateCalorieData that counts the first entry only.
NewCalorieData_firstOnly(entries, cd) ==
    LET first == IF entries = <<>> THEN 0 ELSE entries[1].calories IN
    [intake |-> first,
     target |-> cd.target,
     left |-> Max(0, cd.target - first)]

\* Variant of updateCalorieData that keeps the intake it finds.
NewCalorieData_staleIntake(entries, cd) ==
    [intake |-> cd.intake,
     target |-> cd.target,
     left |-> Max(0, cd.target - cd.intake)]

\* updateCalorieData, lines 568-574: the new calorieData.
NewCalorieData(entries, cd) ==
    [intake |-> SumField(entries, "calories"),
     target |-> cd.target,
     left |-> Max(0, cd.target - SumField(entries, "calories"))]

\* updateCalorieData, lines 577-593, and updateMacroDisplay: the grams left shown.
NewMacroDisplay(entries, profile) ==
    [protein |-> Max(0, profile.proteinGoal - SumField(entries, "protein")),
     carbs |-> Max(0, profile.carbsGoal - SumField(entries, "carbs")),
     fat |-> Max(0, profile.fatsGoal - SumField(entries, "fat"))]

\* A progress value: Math.min((intake / target) * 100, 100) as an exact
\* fraction n/d in lowest terms (d > 0), or NaN (0/0), or -Infinity.
Fraction(n, d) ==
    LET g == Gcd(Abs(n), Abs(d))
        s == IF d < 0 THEN -1 ELSE 1
    IN [t |-> "number", n |-> (s * n) \div g, d |-> (s * d) \div g]

Progress(cd) ==
    IF cd.target = 0
    THEN IF cd.intake = 0 THEN [t |-> "NaN", n |-> 0, d |-> 1]
         ELSE IF cd.intake < 0 THEN [t |-> "-Infinity", n |-> 0, d |-> 1]
         ELSE Fraction(100, 1)
    ELSE LET p == Fraction(cd.intake * 100, cd.target) IN
         IF p.n > 100 * p.d THEN Fraction(100, 1) ELSE p

\* p > k, as JavaScript compares: false for NaN and for -Infinity.
Greater(p, k) == p.t = "number" /\ p.n > k * p.d

\* Variant of updateCalorieProgress whose orange band starts at 80 itself.
updateCalorieProgress_from80(cd) ==
    LET progress == Progress(cd) IN
    [width |-> progress,
     background |-> IF Greater(progress, 100) THEN "red"
                    ELSE IF progress.t = "number" /\ progress.n >= 80 * progress.d THEN "orange"
                    ELSE "green"]

\* updateCalorieProgress, lines 610-622.
updateCalorieProgress(cd) ==
    LET progress == Progress(cd) IN
    [width |-> progress,
     background |-> IF Greater(progress, 100) THEN "red"
                    ELSE IF Greater(progress, 80) THEN "orange"
                    ELSE "green"]

\* updateCalorieData(): recomputes calorieData and both displays from the
\* entries `entries`, the calorieData `cd` and the profile `profile`.
updateCalorieData(entries, cd, profile) ==
    /\ calorieData' = NewCalorieData(entries, cd)
    /\ macroDisplay' = NewMacroDisplay(entries, profile)
    /\ progressFill' = updateCalorieProgress(NewCalorieData(entries, cd))

(***************************************************************************)
(* The undo stack (foodLog.js, lines 715-754).                             *)
(***************************************************************************)
\* Variants of addToUndoStack: without the cut to MAX_UNDO_STACK items, and
\* pushing at the end of the stack.
addToUndoStack_uncut(stack, entry, t) ==
    LET pushed == <<[entry |-> entry, timestamp |-> t]>> \o stack
        fiveMinutesAgo == t - FIVE_MINUTES
        Recent(item) == item.timestamp > fiveMinutesAgo
    IN SelectSeq(pushed, Recent)

addToUndoStack_atEnd(stack, entry, t) ==
    LET pushed == stack \o <<[entry |-> entry, timestamp |-> t]>>
        kept == IF Len(pushed) > MAX_UNDO_STACK
                THEN SubSeq(pushed, 1, MAX_UNDO_STACK)
                ELSE pushed
        fiveMinutesAgo == t - FIVE_MINUTES
        Recent(item) == item.timestamp > fiveMinutesAgo
    IN SelectSeq(kept, Recent)

\* addToUndoStack(entry) at time t: the new stack.
addToUndoStack(stack, entry, t) ==
    LET pushed == <<[entry |-> entry, timestamp |-> t]>> \o stack
        kept == IF Len(pushed) > MAX_UNDO_STACK
                THEN SubSeq(pushed, 1, MAX_UNDO_STACK)
                ELSE pushed
        fiveMinutesAgo == t - FIVE_MINUTES
        Recent(item) == item.timestamp > fiveMinutesAgo
    IN SelectSeq(kept, Recent)

\* Variant of the catch block that leaves the stack as it is.
removeFailedFromUndoStack_kept(stack, entryToDelete) == stack

\* deleteFoodEntry's catch block, lines 511-514: the stack after a failed
\* deletion of entryToDelete.
removeFailedFromUndoStack(stack, entryToDelete) ==
    IF Len(stack) > 0 /\ stack[1].entry.id = entryToDelete.id
    THEN Tail(stack)
    ELSE stack

\* The totals that the ledger shows.
Totals == [intake |-> calorieData.intake, left |-> calorieData.left, macros |-> macroDisplay]
NoTotals == [intake |-> -1, left |-> -1, macros |-> [protein |-> -1, carbs |-> -1, fat |-> -1]]

(***************************************************************************)
(* Calls that are awaiting a response.                                     *)
(***************************************************************************)
NoForm == [calorieGoal |-> JsNaN, proteinGoal |-> JsNaN, carbsGoal |-> JsNaN, fatsGoal |-> JsNaN,
           age |-> JsNull, weight |-> JsNull, height |-> JsNull]
Call(op, index, entry, form) ==
    [op |-> op, index |-> index, entry |-> entry, form |-> form, date |-> NoDate,
     originalText |-> "none"]
\* A call whose request carries date_str.
DatedCall(op, date) == [Call(op, 0, NoEntry, NoForm) EXCEPT !.date = date]
\* A call of logFood: selectedDate, and the label that the log button had.
LogFoodCall(date, originalText) ==
    [DatedCall("logFood", date) EXCEPT !.originalText = originalText]

\* Handlers overlap (conc) or each completes before the next is started.
CanCall(conc, n) == IF conc THEN Len(pending) + n <= MaxInFlight ELSE pending = <<>>
Quiet(conc) == conc \/ pending = <<>>
Awaiting(k, op) == k \in 1..Len(pending) /\ pending[k].op = op

ProfileFrame == UNCHANGED <<userProfile, profileMessage, viveo_profile>>
\* The backend's store where a specification does not follow it.
Untracked == {[src |-> "untracked", n |-> 0]}
ButtonFrame == UNCHANGED logButton
ChatFrame == UNCHANGED <<aiChatPanel, aiChatOpen>>
ServerFrame == UNCHANGED server
DataFrame == UNCHANGED <<exported, viveo_data>>
PageFrame == ButtonFrame /\ ChatFrame /\ ServerFrame /\ DataFrame
StorageFrame == UNCHANGED <<viveo_day>>

(***************************************************************************)
(* logFood (foodLog.js, lines 4-151).                                      *)
(***************************************************************************)
\* Up to the await of the fetch.  The input text is not empty.
logFood_call(conc) ==
    /\ Quiet(conc)
    /\ IF currentUser = NoUser
       THEN /\ foodLogMessage' = "Please login first"
            /\ UNCHANGED <<pending, logButton>>
       ELSE /\ CanCall(conc, 1)
            /\ Len(foodEntries) < MaxEntries
            /\ logButton' = [textContent |-> "Processing...", disabled |-> TRUE]
            /\ pending' = Append(pending, LogFoodCall(currentDate, logButton.textContent))
            /\ UNCHANGED foodLogMessage
    /\ lastDelete' = NoTotals
    /\ UNCHANGED <<currentUser, foodEntries, calorieData, deletedEntriesStack, now,
                   progressFill, macroDisplay, undoable>>
    /\ ProfileFrame /\ StorageFrame
    /\ UNCHANGED <<deleteFailed, currentDate>> /\ ChatFrame /\ ServerFrame /\ DataFrame

\* The fetch settles: response.ok with the record `raw`, a response that is
\* not ok, or a rejected fetch (the offline fallback); then the finally block
\* gives the button the label that this call read when it started.
logFood_response(k, kind, raw) ==
    /\ Awaiting(k, "logFood")
    /\ pending' = RemoveAt(pending, k)
    /\ CASE kind = "ok" ->
              /\ Len(foodEntries) < MaxEntries
              /\ raw.entry_id.src = "none" => CanGenerateId(UsedIds)
              /\ foodEntries' = Append(foodEntries,
                                      Dated(EntryFromBackend(raw, UsedIds), pending[k].date))
              /\ updateCalorieData(foodEntries', calorieData, userProfile)
              /\ foodLogMessage' = "Successfully logged"
              /\ server' = IF server # Untracked /\ pending[k].date = Today
                           THEN server \cup {raw.entry_id} ELSE server
         [] kind = "not ok" ->
              /\ foodLogMessage' = "Failed to log food"
              /\ UNCHANGED <<foodEntries, calorieData, progressFill, macroDisplay, server>>
         [] OTHER ->
              /\ Len(foodEntries) < MaxEntries
              /\ CanGenerateId(UsedIds)
              /\ foodEntries' = Append(foodEntries, Dated(OfflineEntry(UsedIds), pending[k].date))
              /\ updateCalorieData(foodEntries', calorieData, userProfile)
              /\ foodLogMessage' = "Food logged successfully (offline mode)"
              /\ UNCHANGED server
    /\ logButton' = [textContent |-> pending[k].originalText, disabled |-> FALSE]
    /\ lastDelete' = NoTotals
    /\ UNCHANGED <<currentUser, deletedEntriesStack, now, undoable>>
    /\ ProfileFrame /\ StorageFrame
    /\ UNCHANGED <<deleteFailed, currentDate>> /\ ChatFrame /\ DataFrame

(***************************************************************************)
(* loadFoodEntriesForDate (foodLog.js, lines 165-265).                     *)
(***************************************************************************)
loadFoodEntriesForDate_call(conc) ==
    /\ currentUser # NoUser
    /\ CanCall(conc, 1)
    /\ pending' = Append(pending, DatedCall("loadFoodEntriesForDate", Today))
    /\ lastDelete' = NoTotals
    /\ UNCHANGED <<currentUser, foodEntries, calorieData, deletedEntriesStack, now,
                   foodLogMessage, progressFill, macroDisplay, undoable>>
    /\ ProfileFrame /\ StorageFrame
    /\ UNCHANGED <<deleteFailed, currentDate>> /\ PageFrame

\* The lists of distinct backend records that a response may carry.
EntryLists(catalog) ==
    {s \in UNION {[1..n -> catalog] : n \in 0..MaxEntries} :
        \A i, j \in 1..Len(s) : i # j => s[i].entry_id # s[j].entry_id}

RECURSIVE MapEntries(_, _)
MapEntries(raws, used) ==
    IF raws = <<>> THEN <<>>
    ELSE LET e == EntryFromBackend(raws[1], used) IN
         <<e>> \o MapEntries(Tail(raws), used \cup {e.id})

\* loadSampleFoodData (lines 647-677); it needs two generated ids.
SampleFoodData(used) ==
    LET id1 == generateId(used)
        id2 == generateId(used \cup {id1})
    IN <<[id |-> id1, calories |-> 350, protein |-> 35, carbs |-> 30, fat |-> 8, fiber |-> 2,
          ledger |-> NoDate],
         [id |-> id2, calories |-> 180, protein |-> 4, carbs |-> 12, fat |-> 15, fiber |-> 8,
          ledger |-> NoDate]>>

\* The fetch settles: "ok" with data.entries = raws, "no entries" (ok, no
\* array), "not ok", "fetch failed" (a TypeError naming fetch: sample data)
\* or "error" (any other exception).
loadFoodEntriesForDate_response(k, kind, raws) ==
    /\ Awaiting(k, "loadFoodEntriesForDate")
    /\ pending' = RemoveAt(pending, k)
    /\ CASE kind = "ok" ->
              /\ foodEntries' = DatedAll(MapEntries(raws, KeptIds), pending[k].date)
              /\ foodLogMessage' = IF Len(raws) > 0 THEN "Loaded food entries" ELSE foodLogMessage
         [] kind = "not ok" ->
              /\ foodEntries' = <<>>
              /\ foodLogMessage' = "Failed to load food entries"
         [] kind = "fetch failed" ->
              /\ CanGenerateId(KeptIds) /\ CanGenerateId(KeptIds \cup {generateId(KeptIds)})
              /\ foodEntries' = DatedAll(SampleFoodData(KeptIds), pending[k].date)
              /\ foodLogMessage' = "Network error - using offline mode"
         [] OTHER ->
              /\ foodEntries' = <<>>
              /\ UNCHANGED foodLogMessage
    /\ updateCalorieData(foodEntries', calorieData, userProfile)
    /\ lastDelete' = NoTotals
    /\ UNCHANGED <<currentUser, deletedEntriesStack, now, undoable>>
    /\ ProfileFrame /\ StorageFrame
    /\ UNCHANGED <<deleteFailed, currentDate>> /\ PageFrame

(***************************************************************************)
(* loadFoodEntriesForSelectedDate (foodLog.js, lines 275-286).             *)
(***************************************************************************)
\* currentDate is set at once; the entries of the date arrive with the
\* response of loadFoodEntriesForDate(dateString), which returns without a
\* request when nobody is logged in.
loadFoodEntriesForSelectedDate_call(conc, dateString) ==
    /\ Quiet(conc)
    /\ currentDate' = dateString
    /\ IF currentUser = NoUser
       THEN UNCHANGED pending
       ELSE /\ CanCall(conc, 1)
            /\ pending' = Append(pending, DatedCall("loadFoodEntriesForDate", dateString))
    /\ lastDelete' = NoTotals
    /\ UNCHANGED <<currentUser, foodEntries, calorieData, deletedEntriesStack, now,
                   foodLogMessage, progressFill, macroDisplay, undoable, deleteFailed>>
    /\ ProfileFrame /\ StorageFrame /\ PageFrame

(***************************************************************************)
(* deleteFoodEntry (foodLog.js, lines 455-522).  `index` is the JavaScript *)
(* index plus one.                                                         *)
(***************************************************************************)
\* Lines 497-505 and, when the spliced element is undefined, the TypeError of
\* line 505 caught at line 507.
deleteFoodEntry_remove(index) ==
    IF index <= Len(foodEntries)
    THEN /\ foodEntries' = RemoveAt(foodEntries, index)
         /\ updateCalorieData(foodEntries', calorieData, userProfile)
         /\ foodLogMessage' = "Deleted"
         /\ undoable' = <<foodEntries[index]>> \o undoable
         /\ lastDelete' = Totals
         /\ UNCHANGED <<deleteFailed, currentDate>> /\ ButtonFrame /\ ChatFrame /\ DataFrame
    ELSE /\ foodEntries' = foodEntries
         /\ updateCalorieData(foodEntries, calorieData, userProfile)
         /\ foodLogMessage' = "Failed to delete entry"
         /\ UNCHANGED undoable
         /\ lastDelete' = NoTotals
         /\ deleteFailed' = TRUE /\ UNCHANGED currentDate
         /\ ButtonFrame /\ ChatFrame /\ DataFrame

\* Up to the await of the DELETE request; to the end for an entry without id
\* or without a user.  The user confirms the dialog or cancels it.
deleteFoodEntry_call(conc, depth, index, confirmDelete) ==
    /\ Quiet(conc)
    /\ IF index < 1 \/ index > Len(foodEntries)
       THEN /\ foodLogMessage' = "Invalid entry to delete"
            /\ lastDelete' = NoTotals
            /\ UNCHANGED <<foodEntries, calorieData, deletedEntriesStack, pending,
                           progressFill, macroDisplay, undoable, deleteFailed, currentDate>> /\ PageFrame
       ELSE IF ~confirmDelete
       THEN /\ lastDelete' = NoTotals
            /\ UNCHANGED <<foodEntries, calorieData, deletedEntriesStack, pending,
                           foodLogMessage, progressFill, macroDisplay, undoable,
                           deleteFailed, currentDate>> /\ PageFrame
       ELSE /\ Len(deletedEntriesStack) < depth
            /\ Len(undoable) < depth
            /\ IF currentUser # NoUser /\ foodEntries[index].id # NoId
               THEN /\ CanCall(conc, 1)
                    /\ deletedEntriesStack' = addToUndoStack(deletedEntriesStack, foodEntries[index], now)
                    /\ pending' = Append(pending, Call("deleteFoodEntry", index, foodEntries[index], NoForm))
                    /\ lastDelete' = NoTotals
                    /\ UNCHANGED <<foodEntries, calorieData, foodLogMessage,
                                   progressFill, macroDisplay, undoable, deleteFailed, currentDate>> /\ PageFrame
               ELSE /\ LET pushed == addToUndoStack(deletedEntriesStack, foodEntries[index], now) IN
                       deletedEntriesStack' = pushed
                    /\ deleteFoodEntry_remove(index)
                    /\ ServerFrame
                    /\ UNCHANGED pending
    /\ UNCHANGED <<currentUser, now>>
    /\ ProfileFrame /\ StorageFrame

\* The DELETE request settles: response.ok, or a response that is not ok or a
\* rejected fetch (both end in the catch block).  A backend that answers ok
\* holds the entry no longer.
deleteFoodEntry_response(k, ok) ==
    /\ Awaiting(k, "deleteFoodEntry")
    /\ pending' = RemoveAt(pending, k)
    /\ IF ok
       THEN /\ deleteFoodEntry_remove(pending[k].index)
            /\ deletedEntriesStack' =
                 IF pending[k].index <= Len(foodEntries)
                 THEN deletedEntriesStack
                 ELSE removeFailedFromUndoStack(deletedEntriesStack, pending[k].entry)
       ELSE /\ foodLogMessage' = "Failed to delete entry"
            /\ deletedEntriesStack' = removeFailedFromUndoStack(deletedEntriesStack, pending[k].entry)
            /\ lastDelete' = NoTotals
            /\ deleteFailed' = TRUE /\ UNCHANGED currentDate
            /\ ButtonFrame /\ ChatFrame /\ DataFrame
            /\ UNCHANGED <<foodEntries, calorieData, progressFill, macroDisplay, undoable>>
    /\ server' = IF server # Untracked /\ ok THEN server \ {pending[k].entry.id} ELSE server
    /\ UNCHANGED <<currentUser, now>>
    /\ ProfileFrame /\ StorageFrame

(***************************************************************************)
(* undoLastDelete (foodLog.js, lines 735-754).                             *)
(***************************************************************************)
\* Variant of undoLastDelete without the test of lines 736-739, reading
\* lastDeleted?.entry: the empty stack yields an entry without values.
undoLastDelete_unguarded(conc) ==
    /\ Quiet(conc)
    /\ IF Len(deletedEntriesStack) = 0
       THEN /\ Len(foodEntries) < MaxEntries
            /\ CanGenerateId(UsedIds)
            /\ foodEntries' = Append(foodEntries, [NoEntry EXCEPT !.id = generateId(UsedIds)])
            /\ updateCalorieData(foodEntries', calorieData, userProfile)
            /\ foodLogMessage' = "Restored"
            /\ UNCHANGED <<deletedEntriesStack, undoable>>
       ELSE /\ Len(foodEntries) < MaxEntries
            /\ LET lastDeleted == Head(deletedEntriesStack)
                   restoredEntry ==
                     IF lastDeleted.entry.id = NoId
                     THEN [lastDeleted.entry EXCEPT !.id = generateId(UsedIds)]
                     ELSE lastDeleted.entry
               IN /\ lastDeleted.entry.id = NoId => CanGenerateId(UsedIds)
                  /\ deletedEntriesStack' = Tail(deletedEntriesStack)
                  /\ foodEntries' = Append(foodEntries, restoredEntry)
            /\ updateCalorieData(foodEntries', calorieData, userProfile)
            /\ foodLogMessage' = "Restored"
            /\ undoable' = IF undoable = <<>> THEN <<>> ELSE Tail(undoable)
    /\ lastDelete' = NoTotals
    /\ UNCHANGED <<currentUser, now, pending>>
    /\ ProfileFrame /\ StorageFrame
    /\ UNCHANGED <<deleteFailed, currentDate>> /\ PageFrame

undoLastDelete(conc) ==
    /\ Quiet(conc)
    /\ IF Len(deletedEntriesStack) = 0
       THEN /\ foodLogMessage' = "No recent deletions to undo"
            /\ UNCHANGED <<foodEntries, calorieData, deletedEntriesStack,
                           progressFill, macroDisplay, undoable>>
       ELSE /\ Len(foodEntries) < MaxEntries
            /\ LET lastDeleted == Head(deletedEntriesStack)
                   restoredEntry ==
                     IF lastDeleted.entry.id = NoId
                     THEN [lastDeleted.entry EXCEPT !.id = generateId(UsedIds)]
                     ELSE lastDeleted.entry
               IN /\ lastDeleted.entry.id = NoId => CanGenerateId(UsedIds)
                  /\ deletedEntriesStack' = Tail(deletedEntriesStack)
                  /\ foodEntries' = Append(foodEntries, restoredEntry)
            /\ updateCalorieData(foodEntries', calorieData, userProfile)
            /\ foodLogMessage' = "Restored"
            /\ undoable' = IF undoable = <<>> THEN <<>> ELSE Tail(undoable)
    /\ lastDelete' = NoTotals
    /\ UNCHANGED <<currentUser, now, pending>>
    /\ ProfileFrame /\ StorageFrame
    /\ UNCHANGED <<deleteFailed, currentDate>> /\ PageFrame

(***************************************************************************)
(* clearAllFoodEntries (foodLog.js, lines 399-452).                        *)
(***************************************************************************)
clearAllFoodEntries_clear ==
    /\ foodEntries' = <<>>
    /\ updateCalorieData(foodEntries', calorieData, userProfile)
    /\ foodLogMessage' = "Cleared all food entries"

clearAllFoodEntries_call(conc, confirmClear) ==
    /\ Quiet(conc)
    /\ IF Len(foodEntries) = 0
       THEN /\ foodLogMessage' = "No entries to clear"
            /\ UNCHANGED <<foodEntries, calorieData, pending, progressFill, macroDisplay>>
       ELSE IF ~confirmClear
       THEN UNCHANGED <<foodEntries, calorieData, pending, foodLogMessage,
                        progressFill, macroDisplay>>
       ELSE IF currentUser # NoUser
       THEN /\ CanCall(conc, 1)
            /\ pending' = Append(pending, Call("clearAllFoodEntries", 0, NoEntry, NoForm))
            /\ UNCHANGED <<foodEntries, calorieData, foodLogMessage, progressFill, macroDisplay>>
       ELSE /\ clearAllFoodEntries_clear
            /\ UNCHANGED pending
    /\ lastDelete' = NoTotals
    /\ UNCHANGED <<currentUser, deletedEntriesStack, now, undoable>>
    /\ ProfileFrame /\ StorageFrame
    /\ UNCHANGED <<deleteFailed, currentDate>> /\ PageFrame

\* Promise.allSettled settles, whatever the single requests did.
clearAllFoodEntries_response(k) ==
    /\ Awaiting(k, "clearAllFoodEntries")
    /\ pending' = RemoveAt(pending, k)
    /\ clearAllFoodEntries_clear
    /\ lastDelete' = NoTotals
    /\ UNCHANGED <<currentUser, deletedEntriesStack, now, undoable>>
    /\ ProfileFrame /\ StorageFrame
    /\ UNCHANGED <<deleteFailed, currentDate>> /\ PageFrame

\* Time passes.
Tick ==
    /\ now < MaxTicks * TickMs
    /\ now' = now + TickMs
    /\ UNCHANGED <<currentUser, foodEntries, calorieData, userProfile, deletedEntriesStack,
                   pending, foodLogMessage, profileMessage, progressFill, macroDisplay,
                   viveo_profile, viveo_day, undoable, lastDelete>>
    /\ UNCHANGED <<deleteFailed, currentDate>> /\ PageFrame

(***************************************************************************)
(* The goal profile (profile.js).                                          *)
(***************************************************************************)
DefaultProfile ==
    [calorieGoal |-> 2000, proteinGoal |-> 150, carbsGoal |-> 250, fatsGoal |-> 65,
     age |-> JsNull, weight |-> JsNull, height |-> JsNull,
     activityLevel |-> "moderately_active"]

NoProfile == [stored |-> FALSE, profile |-> DefaultProfile]
StoredProfile(p) == [stored |-> TRUE, profile |-> p]

\* A form field's text is a sequence of characters.
DigitValue(c) ==
    CASE c = "0" -> 0 [] c = "1" -> 1 [] c = "2" -> 2 [] c = "3" -> 3 [] c = "4" -> 4
      [] c = "5" -> 5 [] c = "6" -> 6 [] c = "7" -> 7 [] c = "8" -> 8 [] c = "9" -> 9
      [] OTHER -> -1

RECURSIVE ParseDigits(_, _, _)
\* The leading digits of s as a number (acc so far, any: a digit was read).
ParseDigits(s, acc, any) ==
    IF s = <<>> \/ DigitValue(Head(s)) < 0
    THEN IF any THEN JsNum(acc) ELSE JsNaN
    ELSE ParseDigits(Tail(s), acc * 10 + DigitValue(Head(s)), TRUE)

RECURSIVE parseInt(_)
\* parseInt(text): leading blanks, a sign, digits up to the first other character.
parseInt(s) ==
    IF s = <<>> THEN JsNaN
    ELSE IF Head(s) = " " THEN parseInt(Tail(s))
    ELSE IF Head(s) = "-"
         THEN LET n == ParseDigits(Tail(s), 0, FALSE) IN
              IF n.t = "NaN" THEN n ELSE JsNum(-n.v)
    ELSE IF Head(s) = "+" THEN ParseDigits(Tail(s), 0, FALSE)
    ELSE ParseDigits(s, 0, FALSE)

\* parseFloat(text), for the whole-number texts the model enters.
parseFloat(s) == parseInt(s)

\* !x for a number or NaN.
Falsy(x) == x.t # "number" \/ x.v = 0
\* x || null
OrNull(x) == IF Falsy(x) THEN JsNull ELSE x

\* calculateBMR (male) times 1000.
calculateBMR(weight, height, age) == 88362 + 13397 * weight + 4799 * height - 5677 * age

ActivityMultiplier(activityLevel) ==
    CASE activityLevel = "sedentary" -> 1200
      [] activityLevel = "lightly_active" -> 1375
      [] activityLevel = "moderately_active" -> 1550
      [] activityLevel = "very_active" -> 1725
      [] activityLevel = "extremely_active" -> 1900
      [] OTHER -> 1550

\* calculateDailyCalories: Math.round(bmr * multiplier), that is
\* (bmr * multiplier + 500000) \div 1000000 on the scaled values, computed in
\* two parts to stay within 32 bits.
calculateDailyCalories(weight, height, age, activityLevel) ==
    LET bmr == calculateBMR(weight, height, age)
        multiplier == ActivityMultiplier(activityLevel)
    IN ((bmr \div 1000) * multiplier + ((bmr % 1000) * multiplier + 500000) \div 1000) \div 1000

\* calculateBMI: (weight / (height/100)^2).toFixed(1), a decimal text.  The
\* model counts BMI in tenths: toFixed(1) rounds to the nearest tenth, a tie
\* upwards.
calculateBMI(weight, height) ==
    JsNumStr((2 * weight * 100000 + height * height) \div (2 * height * height))

\* Variant of getBMICategory whose thresholds belong to the lower category.
getBMICategory_exclusive(bmi) ==
    IF bmi <= 185 THEN "Underweight"
    ELSE IF bmi <= 250 THEN "Normal weight"
    ELSE IF bmi <= 300 THEN "Overweight"
    ELSE "Obese"

\* getBMICategory (bmi in tenths: 18.5 is 185).
getBMICategory(bmi) ==
    IF bmi < 185 THEN "Underweight"
    ELSE IF bmi < 250 THEN "Normal weight"
    ELSE IF bmi < 300 THEN "Overweight"
    ELSE "Obese"

\* One line of the recommendations: its text, and the BMI and category that
\* the BMI line shows.
Recommendation(text) == [text |-> text, bmi |-> 0, category |-> "none"]
CompleteYourProfile == Recommendation("Complete your profile for personalized recommendations.")

\* The lines after the BMI line: protein, activity and calorie checks.
OtherRecommendations(profile) ==
    LET recommendedCalories == calculateDailyCalories(profile.weight.v, profile.height.v,
                                                      profile.age.v, profile.activityLevel)
        calorieDifference == profile.calorieGoal - recommendedCalories
    IN (IF profile.proteinGoal * 10 < 12 * profile.weight.v
        THEN <<Recommendation("Consider increasing protein intake")>>
        ELSE IF profile.proteinGoal * 10 > 22 * profile.weight.v
        THEN <<Recommendation("Your protein intake is quite high")>>
        ELSE <<>>)
       \o (IF profile.activityLevel = "sedentary"
           THEN <<Recommendation("Try to incorporate more physical activity")>>
           ELSE <<>>)
       \o (IF Abs(calorieDifference) > 200
           THEN IF calorieDifference > 0
                THEN <<Recommendation("Your calorie goal is above maintenance")>>
                ELSE <<Recommendation("Your calorie goal is below maintenance")>>
           ELSE <<>>)

\* Variant of generateNutritionRecommendations that pushes the message for an
\* incomplete profile and goes on with the activity check.
generateNutritionRecommendations_goesOn(profile) ==
    IF Falsy(profile.age) \/ Falsy(profile.weight) \/ Falsy(profile.height)
    THEN <<CompleteYourProfile>>
         \o (IF profile.activityLevel = "sedentary"
             THEN <<Recommendation("Try to incorporate more physical activity")>>
             ELSE <<>>)
    ELSE LET bmi == calculateBMI(profile.weight.v, profile.height.v)
             bmiCategory == getBMICategory(ToNumber(bmi).v)
         IN <<[text |-> "Your BMI is", bmi |-> bmi.v, category |-> bmiCategory]>>
            \o OtherRecommendations(profile)

\* generateNutritionRecommendations (profile.js, lines 235-281).
generateNutritionRecommendations(profile) ==
    IF Falsy(profile.age) \/ Falsy(profile.weight) \/ Falsy(profile.height)
    THEN <<CompleteYourProfile>>
    ELSE LET bmi == calculateBMI(profile.weight.v, profile.height.v)
             bmiCategory == getBMICategory(ToNumber(bmi).v)
         IN <<[text |-> "Your BMI is", bmi |-> bmi.v, category |-> bmiCategory]>>
            \o OtherRecommendations(profile)

\* saveProfileSettings, lines 41-50: the form's texts parsed.
FormData(form) ==
    [calorieGoal |-> parseInt(form.calorieGoal),
     proteinGoal |-> parseInt(form.proteinGoal),
     carbsGoal |-> parseInt(form.carbsGoal),
     fatsGoal |-> parseInt(form.fatsGoal),
     age |-> OrNull(parseInt(form.age)),
     weight |-> OrNull(parseFloat(form.weight)),
     height |-> OrNull(parseInt(form.height)),
     activityLevel |-> form.activityLevel]

\* Variant of line 53 that tests the goals with isNaN.
InvalidGoals_isNaN(formData) ==
    \/ formData.calorieGoal.t # "number"
    \/ formData.proteinGoal.t # "number"
    \/ formData.carbsGoal.t # "number"
    \/ formData.fatsGoal.t # "number"

\* saveProfileSettings, line 53.
InvalidGoals(formData) ==
    \/ Falsy(formData.calorieGoal)
    \/ Falsy(formData.proteinGoal)
    \/ Falsy(formData.carbsGoal)
    \/ Falsy(formData.fatsGoal)

\* saveProfileSettings, lines 59-80: the calorie goal after the suggestion.
SuggestedCalorieGoal(formData, shouldUpdate) ==
    IF formData.age.t = "number" /\ formData.weight.t = "number" /\ formData.height.t = "number"
    THEN LET calculatedCalories ==
               calculateDailyCalories(formData.weight.v, formData.height.v,
                                      formData.age.v, formData.activityLevel)
         IN IF Abs(formData.calorieGoal.v - calculatedCalories) > 300 /\ shouldUpdate
            THEN calculatedCalories
            ELSE formData.calorieGoal.v
    ELSE formData.calorieGoal.v

\* { ...userProfile, ...formData } with the goals as numbers.
ProfileFromForm(formData, calorieGoal) ==
    [calorieGoal |-> calorieGoal,
     proteinGoal |-> formData.proteinGoal.v,
     carbsGoal |-> formData.carbsGoal.v,
     fatsGoal |-> formData.fatsGoal.v,
     age |-> formData.age, weight |-> formData.weight, height |-> formData.height,
     activityLevel |-> formData.activityLevel]

\* saveProfileSettings, lines 93-100, with the profile and calorieData then.
saveProfileSettings_finish(profile, cd) ==
    /\ viveo_profile' = StoredProfile(profile)
    /\ updateCalorieData(foodEntries, cd, profile)
    /\ profileMessage' = "Profile settings saved successfully!"

\* saveProfileSettings (lines 34-111) up to the await of saveProfileToBackend;
\* to the end without a user.
saveProfileSettings_call(conc, form, shouldUpdate) ==
    /\ Quiet(conc)
    /\ LET formData == FormData(form) IN
       IF InvalidGoals(formData)
       THEN /\ profileMessage' = "Please fill in all nutrition goals."
            /\ UNCHANGED <<userProfile, calorieData, pending, viveo_profile,
                           progressFill, macroDisplay>>
       ELSE LET goal == SuggestedCalorieGoal(formData, shouldUpdate) IN
            /\ userProfile' = ProfileFromForm(formData, goal)
            /\ IF currentUser # NoUser
               THEN /\ CanCall(conc, 1)
                    /\ calorieData' = [calorieData EXCEPT !.target = goal]
                    /\ pending' = Append(pending, Call("saveProfileSettings", 0, NoEntry, NoForm))
                    /\ UNCHANGED <<profileMessage, viveo_profile, progressFill, macroDisplay>>
               ELSE /\ saveProfileSettings_finish(userProfile', [calorieData EXCEPT !.target = goal])
                    /\ UNCHANGED pending
    /\ lastDelete' = NoTotals
    /\ UNCHANGED <<currentUser, foodEntries, deletedEntriesStack, now, foodLogMessage,
                   viveo_day, undoable>>
    /\ UNCHANGED <<deleteFailed, currentDate>> /\ PageFrame

\* saveProfileToBackend settles (it swallows its own errors): lines 93-105.
saveProfileSettings_response(k) ==
    /\ Awaiting(k, "saveProfileSettings")
    /\ pending' = RemoveAt(pending, k)
    /\ saveProfileSettings_finish(userProfile, calorieData)
    /\ lastDelete' = NoTotals
    /\ UNCHANGED <<currentUser, foodEntries, userProfile, deletedEntriesStack, now,
                   foodLogMessage, viveo_day, undoable>>
    /\ UNCHANGED <<deleteFailed, currentDate>> /\ PageFrame

\* { ...profile, ...over }: the keys of `over` replace those of `profile`.
Merge(profile, over) ==
    [key \in DOMAIN profile |-> IF key \in DOMAIN over THEN over[key] ELSE profile[key]]

\* loadUserProfile, lines 159-170: the localStorage fallback and the refresh.
loadUserProfile_finish(profile) ==
    /\ userProfile' = IF viveo_profile.stored THEN Merge(profile, viveo_profile.profile) ELSE profile
    /\ updateCalorieData(foodEntries, [calorieData EXCEPT !.target = userProfile'.calorieGoal],
                         userProfile')

\* loadUserProfile (lines 137-171) up to the await of the fetch; to the end
\* without a user.
loadUserProfile_call(conc) ==
    /\ Quiet(conc)
    /\ IF currentUser # NoUser
       THEN /\ CanCall(conc, 1)
            /\ pending' = Append(pending, Call("loadUserProfile", 0, NoEntry, NoForm))
            /\ UNCHANGED <<userProfile, calorieData, progressFill, macroDisplay>>
       ELSE /\ loadUserProfile_finish(userProfile)
            /\ UNCHANGED pending
    /\ lastDelete' = NoTotals
    /\ UNCHANGED <<currentUser, foodEntries, deletedEntriesStack, now, foodLogMessage,
                   profileMessage, viveo_profile, viveo_day, undoable>>
    /\ UNCHANGED <<deleteFailed, currentDate>> /\ PageFrame

\* The fetch settles: response.ok with backendProfile, or not.
loadUserProfile_response(k, ok, backendProfile) ==
    /\ Awaiting(k, "loadUserProfile")
    /\ pending' = RemoveAt(pending, k)
    /\ loadUserProfile_finish(IF ok THEN Merge(userProfile, backendProfile) ELSE userProfile)
    /\ lastDelete' = NoTotals
    /\ UNCHANGED <<currentUser, foodEntries, deletedEntriesStack, now, foodLogMessage,
                   profileMessage, viveo_profile, viveo_day, undoable>>
    /\ UNCHANGED <<deleteFailed, currentDate>> /\ PageFrame

\* resetProfile (lines 282-305), confirmed.
resetProfile(conc) ==
    /\ Quiet(conc)
    /\ userProfile' = DefaultProfile
    /\ viveo_profile' = NoProfile
    /\ updateCalorieData(foodEntries, [calorieData EXCEPT !.target = userProfile'.calorieGoal],
                         userProfile')
    /\ profileMessage' = "Profile reset to default values."
    /\ lastDelete' = NoTotals
    /\ UNCHANGED <<currentUser, foodEntries, deletedEntriesStack, now, pending,
                   foodLogMessage, viveo_day, undoable>>
    /\ UNCHANGED <<deleteFailed, currentDate>> /\ PageFrame

\* importProfile's reader.onload (lines 333-356) for a file whose JSON holds
\* the object `profile` under "profile".
importProfile(conc, profile) ==
    /\ Quiet(conc)
    /\ userProfile' = Merge(userProfile, profile)
    /\ viveo_profile' = StoredProfile(userProfile')
    /\ updateCalorieData(foodEntries, [calorieData EXCEPT !.target = userProfile'.calorieGoal],
                         userProfile')
    /\ profileMessage' = "Profile imported successfully!"
    /\ lastDelete' = NoTotals
    /\ UNCHANGED <<currentUser, foodEntries, deletedEntriesStack, now, pending,
                   foodLogMessage, viveo_day, undoable>>
    /\ UNCHANGED <<deleteFailed, currentDate>> /\ PageFrame

\* exportProfile (profile.js, lines 307-325): the downloaded file.
exportProfile(conc) ==
    /\ Quiet(conc)
    /\ exported' = [made |-> TRUE, profile |-> userProfile,
                    recommendations |-> generateNutritionRecommendations(userProfile)]
    /\ lastDelete' = NoTotals
    /\ UNCHANGED <<currentUser, foodEntries, calorieData, deletedEntriesStack, now, pending,
                   foodLogMessage, progressFill, macroDisplay, viveo_day, undoable,
                   deleteFailed, currentDate, viveo_data>>
    /\ ProfileFrame /\ ButtonFrame /\ ChatFrame /\ ServerFrame

\* What the user enters in the settings form.
Text2000 == <<"2", "0", "0", "0">>
FormLow ==
    [calorieGoal |-> <<"1", "5", "0", "0">>, proteinGoal |-> <<"1", "5", "0">>,
     carbsGoal |-> <<"2", "5", "0">>, fatsGoal |-> <<"6", "5">>,
     age |-> <<>>, weight |-> <<>>, height |-> <<>>, activityLevel |-> "moderately_active"]
FormBody ==
    [FormLow EXCEPT !.age = <<"3", "0">>, !.weight = <<"7", "0">>, !.height = <<"1", "7", "5">>]
FormNegative == [FormLow EXCEPT !.calorieGoal = <<"-", "5">>]
FormZeroCalories == [FormLow EXCEPT !.calorieGoal = <<"0">>]
FormZeroFats == [FormLow EXCEPT !.calorieGoal = Text2000, !.fatsGoal = <<"0">>]
Forms == {FormLow, FormBody, FormNegative, FormZeroCalories, FormZeroFats}

\* Forms for the recommendations: only the age entered; a height of 2 m with
\* the weights that give a BMI of 18.3, 18.5, 25.0 and 30.0; little protein
\* and no activity.
FormAgeOnly == [FormLow EXCEPT !.age = <<"3", "0">>, !.activityLevel = "sedentary"]
FormTall(weight) == [FormLow EXCEPT !.age = <<"3", "0">>, !.weight = weight,
                                    !.height = <<"2", "0", "0">>]
FormSedentary == [FormBody EXCEPT !.proteinGoal = <<"5", "0">>, !.activityLevel = "sedentary"]
BodyForms ==
    {FormAgeOnly, FormBody, FormSedentary}
    \cup {FormTall(weight) : weight \in {<<"7", "3">>, <<"7", "4">>, <<"1", "0", "0">>,
                                         <<"1", "2", "0">>}}

\* The "profile" objects of the files imported, and of the backend's answers.
ImportedProfiles == {[calorieGoal |-> 0]}
BackendProfiles == {[calorieGoal |-> 1800, proteinGoal |-> 120]}

\* clearAiChatStateOnly (app.js, lines 110-151): the chat closed, the panel
\* removed from the page.
clearAiChatStateOnly ==
    /\ aiChatPanel' = "absent"
    /\ aiChatOpen' = FALSE

(***************************************************************************)
(* The session (app.js) and the day snapshot in localStorage.              *)
(***************************************************************************)
\* A login: the login handler (auth.js) sets currentUser, then onUserLogin
\* (app.js, lines 59-90) calls loadUserProfile and loadTodaysFoodEntries.
Login(conc, user) ==
    /\ currentUser = NoUser
    /\ CanCall(conc, 2)
    /\ currentUser' = user
    /\ pending' = pending \o <<Call("loadUserProfile", 0, NoEntry, NoForm),
                               DatedCall("loadFoodEntriesForDate", Today)>>
    /\ lastDelete' = NoTotals
    /\ UNCHANGED <<foodEntries, calorieData, userProfile, deletedEntriesStack, now,
                   foodLogMessage, profileMessage, progressFill, macroDisplay,
                   viveo_profile, viveo_day, undoable>>
    /\ clearAiChatStateOnly
    /\ UNCHANGED <<deleteFailed, currentDate>> /\ ButtonFrame /\ ServerFrame /\ DataFrame

\* Variant of handleUserLogout without clearAiChatState.
handleUserLogout_keepsChat(conc) ==
    /\ Quiet(conc)
    /\ currentUser # NoUser
    /\ currentUser' = NoUser
    /\ foodEntries' = <<>>
    /\ calorieData' = [intake |-> 0, target |-> DEFAULT_TARGET, left |-> DEFAULT_TARGET]
    /\ lastDelete' = NoTotals
    /\ UNCHANGED <<userProfile, deletedEntriesStack, now, pending, foodLogMessage,
                   profileMessage, progressFill, macroDisplay, viveo_profile, viveo_day,
                   undoable>>
    /\ UNCHANGED <<aiChatPanel, aiChatOpen>>
    /\ UNCHANGED <<deleteFailed, currentDate>> /\ ButtonFrame /\ ServerFrame /\ DataFrame

\* handleUserLogout (app.js, lines 281-304).
handleUserLogout(conc) ==
    /\ Quiet(conc)
    /\ currentUser # NoUser
    /\ currentUser' = NoUser
    /\ foodEntries' = <<>>
    /\ calorieData' = [intake |-> 0, target |-> DEFAULT_TARGET, left |-> DEFAULT_TARGET]
    /\ lastDelete' = NoTotals
    /\ UNCHANGED <<userProfile, deletedEntriesStack, now, pending, foodLogMessage,
                   profileMessage, progressFill, macroDisplay, viveo_profile, viveo_day,
                   undoable>>
    /\ clearAiChatStateOnly
    /\ UNCHANGED <<deleteFailed, currentDate>> /\ ButtonFrame /\ ServerFrame /\ DataFrame

(***************************************************************************)
(* The AI chat panel (app.js, lines 823-879).  aiChatPanel is "absent",    *)
(* or the panel's style.display: "none" or "flex".                         *)
(***************************************************************************)
ChatOnly ==
    /\ lastDelete' = NoTotals
    /\ UNCHANGED <<currentUser, foodEntries, calorieData, deletedEntriesStack, now, pending,
                   foodLogMessage, progressFill, macroDisplay, viveo_day, undoable,
                   deleteFailed, currentDate>>
    /\ ProfileFrame /\ ButtonFrame /\ ServerFrame /\ DataFrame

\* openAiChat: refused without a user; the panel is created when absent.
openAiChat ==
    /\ IF currentUser = NoUser
       THEN UNCHANGED <<aiChatPanel, aiChatOpen>>
       ELSE aiChatPanel' = "flex" /\ aiChatOpen' = TRUE
    /\ ChatOnly

\* closeAiChat: only when the panel exists.
closeAiChat ==
    /\ IF aiChatPanel = "absent"
       THEN UNCHANGED <<aiChatPanel, aiChatOpen>>
       ELSE aiChatPanel' = "none" /\ aiChatOpen' = FALSE
    /\ ChatOnly

\* toggleAiChat: createAiChatInterface makes the panel with display none.
toggleAiChat ==
    /\ IF currentUser = NoUser
       THEN UNCHANGED <<aiChatPanel, aiChatOpen>>
       ELSE IF aiChatPanel \in {"absent", "none"}
            THEN aiChatPanel' = "flex" /\ aiChatOpen' = TRUE
            ELSE aiChatPanel' = "none" /\ aiChatOpen' = FALSE
    /\ ChatOnly

\* openAiChatFromNotification (app.js, lines 455-484).
openAiChatFromNotification ==
    /\ IF currentUser = NoUser
       THEN UNCHANGED <<aiChatPanel, aiChatOpen>>
       ELSE aiChatPanel' = "flex" /\ aiChatOpen' = TRUE
    /\ ChatOnly

NoDay == [saved |-> FALSE, foodEntries |-> <<>>,
          calorieData |-> [intake |-> 0, target |-> DEFAULT_TARGET, left |-> DEFAULT_TARGET],
          userProfile |-> DefaultProfile]

\* autoSave (app.js, lines 608-622) with autoSaveDayData (lines 976-991).
autoSave ==
    /\ currentUser # NoUser
    /\ viveo_day' = [saved |-> TRUE, foodEntries |-> foodEntries,
                     calorieData |-> calorieData, userProfile |-> userProfile]
    /\ viveo_profile' = StoredProfile(userProfile)
    /\ UNCHANGED <<currentUser, foodEntries, calorieData, userProfile, deletedEntriesStack,
                   now, pending, foodLogMessage, profileMessage, progressFill, macroDisplay,
                   undoable, lastDelete>>
    /\ UNCHANGED <<deleteFailed, currentDate>> /\ PageFrame

\* The snapshot under a 'viveo_data_' key before anything is saved there.
NoData == [saved |-> FALSE, date |-> NoDate, foodEntries |-> <<>>,
           calorieData |-> [intake |-> 0, target |-> DEFAULT_TARGET, left |-> DEFAULT_TARGET]]

\* saveDayData of calendar.js (lines 178-191), which that file's
\* autoSaveDayData calls every 30 seconds (lines 351-354, 371): the key is
\* built from currentDate.  The user name in the key is left out.
saveDayData ==
    /\ viveo_data' = [viveo_data EXCEPT ![currentDate] =
                        [saved |-> TRUE, date |-> currentDate, foodEntries |-> foodEntries,
                         calorieData |-> calorieData]]
    /\ UNCHANGED <<currentUser, foodEntries, calorieData, userProfile, deletedEntriesStack,
                   now, pending, foodLogMessage, profileMessage, progressFill, macroDisplay,
                   viveo_profile, viveo_day, undoable, lastDelete, deleteFailed, currentDate,
                   exported>>
    /\ ButtonFrame /\ ChatFrame /\ ServerFrame

\* loadDayData(dateString) of app.js (lines 994-1018) for today's snapshot.
loadDayData(conc) ==
    /\ Quiet(conc)
    /\ viveo_day.saved
    /\ foodEntries' = viveo_day.foodEntries
    /\ calorieData' = viveo_day.calorieData
    /\ userProfile' = viveo_day.userProfile
    /\ lastDelete' = NoTotals
    /\ UNCHANGED <<currentUser, deletedEntriesStack, now, pending, foodLogMessage,
                   profileMessage, progressFill, macroDisplay, viveo_profile, viveo_day,
                   undoable>>
    /\ UNCHANGED <<deleteFailed, currentDate>> /\ PageFrame

NoExport == [made |-> FALSE, profile |-> DefaultProfile, recommendations |-> <<>>]
LogButtonAtLoad == [textContent |-> "Log Food", disabled |-> FALSE]

(***************************************************************************)
(* The page after its scripts have run and initializeApp has drawn the     *)
(* progress bar; nobody is logged in.  The macro fields still show the     *)
(* page's own placeholders (NoMacros).                                     *)
(***************************************************************************)
NoMacros == [protein |-> -1, carbs |-> -1, fat |-> -1]

InitPage ==
    /\ currentUser = NoUser
    /\ foodEntries = <<>>
    /\ calorieData = [intake |-> 0, target |-> DEFAULT_TARGET, left |-> DEFAULT_TARGET]
    /\ userProfile = DefaultProfile
    /\ deletedEntriesStack = <<>>
    /\ now = 0
    /\ pending = <<>>
    /\ foodLogMessage = "none"
    /\ profileMessage = "none"
    /\ progressFill = updateCalorieProgress(calorieData)
    /\ macroDisplay = NoMacros
    /\ viveo_profile = NoProfile
    /\ viveo_day = NoDay
    /\ undoable = <<>>
    /\ lastDelete = NoTotals
    /\ deleteFailed = FALSE
    /\ currentDate = Today
    /\ exported = NoExport
    /\ logButton = LogButtonAtLoad
    /\ aiChatPanel = "absent"
    /\ aiChatOpen = FALSE
    /\ viveo_data = [date \in Dates \cup EarlierDates |-> NoData]

\* The specifications that do not follow the backend's store.
Init == InitPage /\ server = Untracked

(***************************************************************************)
(* The ledger: food logging, deletion and undo, the session and the day    *)
(* snapshot.  `conc`: handlers may overlap; `depth`: the deletions that    *)
(* may be waiting for an undo; `catalog`: what the backend holds.          *)
(***************************************************************************)
LedgerNext(conc, depth, catalog) ==
    \/ \E user \in Users : Login(conc, user)
    \/ handleUserLogout(conc)
    \/ logFood_call(conc)
    \/ \E k \in 1..Len(pending), kind \in {"ok", "not ok", "rejected"}, raw \in catalog :
         logFood_response(k, kind, raw)
    \/ loadFoodEntriesForDate_call(conc)
    \/ \E k \in 1..Len(pending), kind \in {"ok", "not ok", "fetch failed", "error"},
          raws \in EntryLists(catalog) :
         loadFoodEntriesForDate_response(k, kind, raws)
    \/ \E index \in 1..(MaxEntries + 1), confirmDelete \in BOOLEAN :
         deleteFoodEntry_call(conc, depth, index, confirmDelete)
    \/ \E k \in 1..Len(pending), ok \in BOOLEAN : deleteFoodEntry_response(k, ok)
    \/ undoLastDelete(conc)
    \/ \E confirmClear \in BOOLEAN : clearAllFoodEntries_call(conc, confirmClear)
    \/ \E k \in 1..Len(pending) : clearAllFoodEntries_response(k)
    \/ \E k \in 1..Len(pending) : loadUserProfile_response(k, FALSE, DefaultProfile)

\* The day snapshot: the auto-save timer and loadDayData.
DayNext(conc) ==
    \/ autoSave
    \/ loadDayData(conc)

\* The goal profile: the settings form, import, reset and the profile load,
\* with the session and the date load.  `forms`: what the user may enter;
\* `imports`: the profiles of the files imported; `answers`: the profiles the
\* backend may answer with.
ProfileNext(conc, catalog, forms, imports, answers) ==
    \/ \E user \in Users : Login(conc, user)
    \/ handleUserLogout(conc)
    \/ loadFoodEntriesForDate_call(conc)
    \/ \E k \in 1..Len(pending), kind \in {"ok", "not ok", "fetch failed", "error"},
          raws \in EntryLists(catalog) :
         loadFoodEntriesForDate_response(k, kind, raws)
    \/ \E form \in forms, shouldUpdate \in BOOLEAN :
         saveProfileSettings_call(conc, form, shouldUpdate)
    \/ \E k \in 1..Len(pending) : saveProfileSettings_response(k)
    \/ loadUserProfile_call(conc)
    \/ \E k \in 1..Len(pending), ok \in BOOLEAN, backendProfile \in answers :
         loadUserProfile_response(k, ok, backendProfile)
    \/ resetProfile(conc)
    \/ \E profile \in imports : importProfile(conc, profile)

\* The ledger with time passing; every handler completes before the next one
\* is started.
Next == LedgerNext(FALSE, MaxUndoDepth, LedgerCatalog) \/ Tick
Spec == Init /\ [][Next]_vars

\* The ledger with the day snapshot.
NextDay == LedgerNext(FALSE, 1, LedgerCatalog) \/ DayNext(FALSE)
SpecDay == Init /\ [][NextDay]_vars

\* The ledger with room for one deletion more than the undo stack holds.
NextCap == LedgerNext(FALSE, MAX_UNDO_STACK + 1, CapacityCatalog)
SpecCap == Init /\ [][NextCap]_vars

\* The goal profile.
NextProfile == ProfileNext(FALSE, ProfileCatalog, Forms, ImportedProfiles, BackendProfiles)
SpecProfile == Init /\ [][NextProfile]_vars

\* The ledger with a backend that returns negative, missing and non-numeric
\* values.
NextCoercion == LedgerNext(FALSE, 1, CoercionCatalog)
SpecCoercion == Init /\ [][NextCoercion]_vars

\* The settings form with the export of the profile and its recommendations;
\* nobody is logged in, so that a save completes at once.
NextBody ==
    \/ \E form \in BodyForms, shouldUpdate \in BOOLEAN :
         saveProfileSettings_call(FALSE, form, shouldUpdate)
    \/ resetProfile(FALSE)
    \/ exportProfile(FALSE)
SpecBody == Init /\ [][NextBody]_vars

\* The session with the AI chat; the chat's handlers run while the loads of
\* the login are awaited.
NextChat ==
    \/ \E user \in Users : Login(TRUE, user)
    \/ handleUserLogout(TRUE)
    \/ \E k \in 1..Len(pending), kind \in {"ok", "not ok", "fetch failed", "error"},
          raws \in EntryLists(LedgerCatalog) :
         loadFoodEntriesForDate_response(k, kind, raws)
    \/ \E k \in 1..Len(pending), ok \in BOOLEAN, backendProfile \in BackendProfiles :
         loadUserProfile_response(k, ok, backendProfile)
    \/ toggleAiChat
    \/ openAiChat
    \/ openAiChatFromNotification
    \/ closeAiChat
SpecChat == Init /\ [][NextChat]_vars

\* Deletions that overlap: two DELETE requests may be in flight, and each may
\* succeed or fail.  One session, one load.
NextRace ==
    \/ \E user \in Users : Login(TRUE, user)
    \/ \E k \in 1..Len(pending), raws \in EntryLists(LedgerCatalog) :
         loadFoodEntriesForDate_response(k, "ok", raws)
    \/ \E k \in 1..Len(pending) : loadUserProfile_response(k, FALSE, DefaultProfile)
    \/ \E index \in 1..MaxEntries : deleteFoodEntry_call(TRUE, MaxUndoDepth, index, TRUE)
    \/ \E k \in 1..Len(pending), ok \in BOOLEAN : deleteFoodEntry_response(k, ok)
    \/ undoLastDelete(TRUE)
SpecRace == Init /\ [][NextRace]_vars

(***************************************************************************)
(* The ledger next to the backend's store of today's entries.  The backend *)
(* answers from what it holds: a load returns its records, a DELETE is ok  *)
(* for an entry it holds and not ok for one it does not.  One handler runs *)
(* at a time.                                                              *)
(***************************************************************************)
ServerAtStart == {raw.entry_id : raw \in LedgerCatalog}
InitServer == InitPage /\ server = ServerAtStart

ServerRecords ==
    {raws \in EntryLists(LedgerCatalog) :
        /\ {raws[j].entry_id : j \in 1..Len(raws)} = server
        /\ Len(raws) = Cardinality(server)}

NextServer ==
    \/ \E user \in Users : Login(FALSE, user)
    \/ loadFoodEntriesForDate_call(FALSE)
    \/ \E k \in 1..Len(pending), raws \in ServerRecords :
         loadFoodEntriesForDate_response(k, "ok", raws)
    \/ \E k \in 1..Len(pending) : loadUserProfile_response(k, FALSE, DefaultProfile)
    \/ \E index \in 1..MaxEntries : deleteFoodEntry_call(FALSE, MaxUndoDepth, index, TRUE)
    \/ \E k \in 1..Len(pending) : deleteFoodEntry_response(k, pending[k].entry.id \in server)
    \/ undoLastDelete(FALSE)
SpecServer == InitServer /\ [][NextServer]_vars

\* Sessions that end while requests are in flight: the responses of logFood
\* and of the load arrive after the logout, or in the next session.
NextSession ==
    \/ \E user \in Users : Login(TRUE, user)
    \/ handleUserLogout(TRUE)
    \/ logFood_call(TRUE)
    \/ \E k \in 1..Len(pending), kind \in {"ok", "not ok", "rejected"}, raw \in CapacityCatalog :
         logFood_response(k, kind, raw)
    \/ \E k \in 1..Len(pending), kind \in {"ok", "not ok"}, raws \in EntryLists(CapacityCatalog) :
         loadFoodEntriesForDate_response(k, kind, raws)
    \/ \E k \in 1..Len(pending) : loadUserProfile_response(k, FALSE, DefaultProfile)
SpecSession == Init /\ [][NextSession]_vars

\* Date selections that overlap: in a session, the user selects one earlier
\* date and then another while the first load is still awaited.
NextSelect ==
    \/ \E user \in Users : Login(TRUE, user)
    \/ /\ currentUser # NoUser
       /\ \E dateString \in EarlierDates : loadFoodEntriesForSelectedDate_call(TRUE, dateString)
    \/ \E k \in 1..Len(pending), kind \in {"ok", "not ok"}, raws \in EntryLists(LedgerCatalog) :
         loadFoodEntriesForDate_response(k, kind, raws)
    \/ \E k \in 1..Len(pending) : loadUserProfile_response(k, FALSE, DefaultProfile)
SpecSelect == Init /\ [][NextSelect]_vars

\* The calendar in a session, with the two auto-save timers; every handler
\* completes before the next one is started, and a timer may fire while a
\* request is awaited.
NextCalendar ==
    \/ \E user \in Users : Login(FALSE, user)
    \/ /\ currentUser # NoUser
       /\ \E dateString \in Dates : loadFoodEntriesForSelectedDate_call(FALSE, dateString)
    \/ \E k \in 1..Len(pending), kind \in {"ok", "not ok"}, raws \in EntryLists(CapacityCatalog) :
         loadFoodEntriesForDate_response(k, kind, raws)
    \/ \E k \in 1..Len(pending) : loadUserProfile_response(k, FALSE, DefaultProfile)
    \/ autoSave
    \/ saveDayData
SpecCalendar == Init /\ [][NextCalendar]_vars

\* The ledger with the calendar: handlers overlap, and the user selects a
\* date while requests are in flight.  One session, a backend that answers.
NextDates ==
    \/ \E user \in Users : Login(TRUE, user)
    \/ logFood_call(TRUE)
    \/ \E k \in 1..Len(pending), kind \in {"ok", "rejected"}, raw \in CapacityCatalog :
         logFood_response(k, kind, raw)
    \/ \E dateString \in Dates : loadFoodEntriesForSelectedDate_call(TRUE, dateString)
    \/ \E k \in 1..Len(pending), raws \in EntryLists(CapacityCatalog) :
         loadFoodEntriesForDate_response(k, "ok", raws)
    \/ \E index \in 1..MaxEntries : deleteFoodEntry_call(TRUE, 1, index, TRUE)
    \/ \E k \in 1..Len(pending) : deleteFoodEntry_response(k, TRUE)
    \/ undoLastDelete(TRUE)
    \/ \E k \in 1..Len(pending) : loadUserProfile_response(k, FALSE, DefaultProfile)
SpecDates == Init /\ [][NextDates]_vars

\* Two users take turns on the same page; only the first of them saves
\* profile settings.
TwoUsers == {"alice", "bob"}
NextUsers ==
    \/ \E user \in TwoUsers : Login(FALSE, user)
    \/ handleUserLogout(FALSE)
    \/ \E k \in 1..Len(pending), kind \in {"ok", "not ok", "fetch failed", "error"},
          raws \in EntryLists(CapacityCatalog) :
         loadFoodEntriesForDate_response(k, kind, raws)
    \/ \E k \in 1..Len(pending), ok \in BOOLEAN, backendProfile \in BackendProfiles :
         loadUserProfile_response(k, ok, backendProfile)
    \/ /\ currentUser = "alice"
       /\ \E shouldUpdate \in BOOLEAN : saveProfileSettings_call(FALSE, FormLow, shouldUpdate)
    \/ \E k \in 1..Len(pending) : saveProfileSettings_response(k)
    \/ autoSave
SpecUsers == Init /\ [][NextUsers]_vars

(***************************************************************************)
(* Properties of the undo stack and the ledger totals.                     *)
(***************************************************************************)
\* C1: the undo stack never holds more than MAX_UNDO_STACK (10) items, after
\* any sequence of deletions (accepted or failed by the backend), pushes and
\* undos.
C1_UndoStackAtMostTen == Len(deletedEntriesStack) <= MAX_UNDO_STACK

\* Eleven deletions are waiting for an undo and the stack holds ten of them.
C1_EleventhPushCut ==
    /\ Len(undoable) = MAX_UNDO_STACK + 1
    /\ Len(deletedEntriesStack) = MAX_UNDO_STACK

\* C2, as the code has it: when the undo stack holds an item, undoLastDelete
\* restores the most recent deletion that has not been undone yet, appends
\* that entry to the ledger and removes exactly that item from the stack.
C2_UndoRestoresNewestHeld ==
    [][(undoLastDelete(FALSE) /\ deletedEntriesStack # <<>>) =>
          /\ undoable # <<>>
          /\ Head(deletedEntriesStack).entry = Head(undoable)
          /\ foodEntries' = Append(foodEntries, Head(undoable))
          /\ deletedEntriesStack' = Tail(deletedEntriesStack)]_vars

\* Of two deletions the later one has been restored; the earlier one waits.
C2_NewestOfTwoRestored ==
    /\ foodLogMessage = "Restored"
    /\ Len(undoable) = 1 /\ Len(deletedEntriesStack) = 1
    /\ deletedEntriesStack[1].entry = undoable[1]
    /\ foodEntries # <<>>

\* C2 as stated: after any sequence of successful deletions and undos,
\* undoLastDelete restores the most recent deletion not undone yet and removes
\* exactly that item from the stack.
C2_UndoRestoresNewest ==
    [][(undoLastDelete(FALSE) /\ undoable # <<>> /\ ~deleteFailed) =>
          /\ foodEntries' = Append(foodEntries, Head(undoable))
          /\ deletedEntriesStack # <<>>
          /\ Head(deletedEntriesStack).entry = Head(undoable)
          /\ deletedEntriesStack' = Tail(deletedEntriesStack)]_vars

\* C3 as stated: items older than five minutes are purged when the stack is
\* read, so undoLastDelete never restores an entry that was deleted more than
\* five minutes before.
C3_UndoNeverRestoresExpired ==
    [][(undoLastDelete(FALSE) /\ deletedEntriesStack # <<>>) =>
          now - Head(deletedEntriesStack).timestamp <= FIVE_MINUTES]_vars

C5_IntakeIsSumOfEntries == calorieData.intake = SumField(foodEntries, "calories")

\* A day of two entries has been saved and loaded again.
C5_TwoEntriesSummed ==
    /\ Len(foodEntries) = 2
    /\ calorieData.intake = 530
    /\ viveo_day.saved /\ viveo_day.foodEntries = foodEntries

(***************************************************************************)
(* Properties of the remaining amounts, the progress bar and the settings  *)
(* form.                                                                   *)
(***************************************************************************)
\* C6 as stated, for the positive targets: in every reachable state
\* calorieData.left is max(0, target - intake) and never negative, and the
\* remaining protein, carbs and fat shown are max(0, goal - consumed) likewise.
C6_RemainingIsGoalMinusIntake ==
    /\ calorieData.left >= 0
    /\ calorieData.target > 0 =>
         calorieData.left = Max(0, calorieData.target - calorieData.intake)
    /\ macroDisplay # NoMacros =>
         /\ macroDisplay.protein =
              Max(0, userProfile.proteinGoal - SumField(foodEntries, "protein"))
         /\ macroDisplay.carbs = Max(0, userProfile.carbsGoal - SumField(foodEntries, "carbs"))
         /\ macroDisplay.fat = Max(0, userProfile.fatsGoal - SumField(foodEntries, "fat"))

\* C7 as stated: the progress percent is a number within [0, 100] for every
\* reachable intake and target.
C7_ProgressWithinBounds ==
    /\ progressFill.width.t = "number"
    /\ 0 <= progressFill.width.n
    /\ progressFill.width.n <= 100 * progressFill.width.d

\* C8 as stated: when the intake exceeds a (positive) target,
\* updateCalorieProgress selects the over-target band, red.
C8_OverTargetIsRed ==
    (calorieData.target > 0 /\ calorieData.intake > calorieData.target) =>
        updateCalorieProgress(calorieData).background = "red"

\* intake / target * 100 > k and <= k, as real numbers (target 0: the
\* quotient is Infinity for a positive intake and NaN for intake 0).
PercentAbove(cd, k) ==
    IF cd.target > 0 THEN 100 * cd.intake > k * cd.target
    ELSE IF cd.target < 0 THEN 100 * cd.intake < k * cd.target
    ELSE cd.intake > 0
PercentAtMost(cd, k) ==
    IF cd.target > 0 THEN 100 * cd.intake <= k * cd.target
    ELSE IF cd.target < 0 THEN 100 * cd.intake >= k * cd.target
    ELSE cd.intake < 0

ZeroGoalEntered(form) ==
    \/ form.calorieGoal = <<"0">>
    \/ form.proteinGoal = <<"0">>
    \/ form.carbsGoal = <<"0">>
    \/ form.fatsGoal = <<"0">>

\* C10: saveProfileSettings rejects a form whose calorie, protein, carbs or
\* fats goal is 0: it shows the error message and leaves userProfile,
\* calorieData (its target), the stored profile and the calls to the backend
\* as they were.
C10_ZeroGoalRejected ==
    [][\A form \in Forms, shouldUpdate \in BOOLEAN :
          (saveProfileSettings_call(FALSE, form, shouldUpdate) /\ ZeroGoalEntered(form)) =>
             /\ profileMessage' = "Please fill in all nutrition goals."
             /\ UNCHANGED <<userProfile, calorieData, viveo_profile, pending>>]_vars

\* A logged-in user's form with a zero goal has been rejected.
C10_ZeroGoalFormRejected ==
    /\ profileMessage = "Please fill in all nutrition goals."
    /\ currentUser # NoUser
    /\ pending = <<>>

(***************************************************************************)
(* Properties of the goals and of the totals as a function of the entries. *)
(***************************************************************************)
\* C11 as stated: in every reachable state the four goals of userProfile are
\* positive, whatever saveProfileSettings, importProfile, resetProfile and
\* loadUserProfile have done.
C11_GoalsPositive ==
    /\ userProfile.calorieGoal > 0
    /\ userProfile.proteinGoal > 0
    /\ userProfile.carbsGoal > 0
    /\ userProfile.fatsGoal > 0

\* C17 as stated: after a profile load, save, reset or import and after
\* handleUserLogout, calorieData.target is userProfile.calorieGoal.
C17_TargetIsCalorieGoal ==
    [][(\/ handleUserLogout(FALSE)
        \/ resetProfile(FALSE)
        \/ \E profile \in ImportedProfiles : importProfile(FALSE, profile)
        \/ \E k \in 1..Len(pending) : saveProfileSettings_response(k)
        \/ \E k \in 1..Len(pending), ok \in BOOLEAN, backendProfile \in BackendProfiles :
             loadUserProfile_response(k, ok, backendProfile)) =>
          calorieData'.target = userProfile'.calorieGoal]_vars

\* C18 as stated: a saveProfileSettings whose age, weight or height input is
\* left empty keeps the previous value of that field in userProfile.
C18_EmptyFieldKeepsValue ==
    [][\A form \in Forms \ {FormNegative}, shouldUpdate \in BOOLEAN :
          (saveProfileSettings_call(FALSE, form, shouldUpdate) /\ userProfile' # userProfile) =>
             /\ form.age = <<>> => userProfile'.age = userProfile.age
             /\ form.weight = <<>> => userProfile'.weight = userProfile.weight
             /\ form.height = <<>> => userProfile'.height = userProfile.height]_vars

\* The entries in another order.
Perms(n) == {perm \in [1..n -> 1..n] : \A i, j \in 1..n : i # j => perm[i] # perm[j]}
Permuted(entries, perm) == [i \in 1..Len(entries) |-> entries[perm[i]]]

C13_StackEmptyAtLogin ==
    [][(\E user \in Users : Login(FALSE, user)) => deletedEntriesStack' = <<>>]_vars

\* C16 as stated: when undoLastDelete restores an entry that the backend has
\* deleted, the restored entry gets a newly generated id, not the deleted one.
C16_RestoredEntryGetsNewId ==
    [][(/\ undoLastDelete(FALSE)
        /\ deletedEntriesStack # <<>> /\ undoable # <<>>
        /\ Head(deletedEntriesStack).entry = Head(undoable)
        /\ Head(undoable).id.src = "backend") =>
          foodEntries'[Len(foodEntries')].id # Head(undoable).id]_vars

\* C19: undoLastDelete with an empty undo stack changes neither foodEntries
\* nor calorieData nor the stack; it only shows its notice.
C19_UndoOfNothingIsNoOp ==
    [][(undoLastDelete(FALSE) /\ deletedEntriesStack = <<>>) =>
          /\ UNCHANGED <<foodEntries, calorieData, deletedEntriesStack>>
          /\ foodLogMessage' = "No recent deletions to undo"]_vars

\* An undo has found the stack empty while the ledger holds entries.
C19_NothingToUndo ==
    /\ foodLogMessage = "No recent deletions to undo"
    /\ deletedEntriesStack = <<>>
    /\ foodEntries # <<>>

(***************************************************************************)
(* Properties of the recommendations.                                      *)
(***************************************************************************)
Incomplete(profile) == Falsy(profile.age) \/ Falsy(profile.weight) \/ Falsy(profile.height)

\* C21: whenever age, weight or height is missing from the profile, the
\* recommendations are exactly the one "complete your profile" message.
C21_IncompleteProfileGetsOneMessage ==
    /\ \A form \in BodyForms :
          LET profile == ProfileFromForm(FormData(form), 2000) IN
          Incomplete(profile) =>
              generateNutritionRecommendations(profile) = <<CompleteYourProfile>>
    /\ (exported.made /\ Incomplete(exported.profile)) =>
           exported.recommendations = <<CompleteYourProfile>>

\* A profile with the age only has been exported.
C21_AgeOnlyExported ==
    /\ exported.made
    /\ exported.profile.age = JsNum(30)
    /\ exported.profile.weight = JsNull
    /\ exported.profile.activityLevel = "sedentary"
    /\ exported.recommendations = <<CompleteYourProfile>>

\* C22: a BMI of exactly 18.5 is Normal weight, of exactly 25 Overweight, of
\* exactly 30 Obese, and every BMI below 18.5 is Underweight (BMI in tenths).
C22_ThresholdsBelongToUpperCategory ==
    /\ getBMICategory(185) = "Normal weight"
    /\ getBMICategory(250) = "Overweight"
    /\ getBMICategory(300) = "Obese"
    /\ \A bmi \in 0..184 : getBMICategory(bmi) = "Underweight"
    /\ \A j \in 1..Len(exported.recommendations) :
          LET line == exported.recommendations[j] IN
          line.text = "Your BMI is" =>
              /\ line.bmi = 185 => line.category = "Normal weight"
              /\ line.bmi = 250 => line.category = "Overweight"
              /\ line.bmi = 300 => line.category = "Obese"
              /\ line.bmi < 185 => line.category = "Underweight"

\* A profile whose BMI is exactly 18.5 has been exported.
C22_ExactlyEighteenAndAHalf ==
    /\ exported.made
    /\ exported.profile.weight = JsNum(74)
    /\ exported.profile.height = JsNum(200)
    /\ exported.recommendations[1] =
          [text |-> "Your BMI is", bmi |-> 185, category |-> "Normal weight"]

(***************************************************************************)
(* Properties of deletions that overlap.                                   *)
(***************************************************************************)
ItemsOf(stack, entry) == Cardinality({j \in 1..Len(stack) : stack[j].entry = entry})

\* C23 as stated: when a deleteFoodEntry call fails, the item that the call
\* pushed is removed from the undo stack again, also when another deletion is
\* in flight.
C23_FailedDeletionLeavesNoItem ==
    [][\A k \in 1..Len(pending) :
         (deleteFoodEntry_response(k, FALSE)
          /\ ItemsOf(deletedEntriesStack, pending[k].entry) > 0) =>
             ItemsOf(deletedEntriesStack', pending[k].entry)
               < ItemsOf(deletedEntriesStack, pending[k].entry)]_vars

\* C24 as stated: a deletion that the server has confirmed removes from
\* foodEntries the entry that was confirmed, and no other one, whatever
\* happened to foodEntries while the request was awaited.
C24_ConfirmedEntryIsTheOneRemoved ==
    [][\A k \in 1..Len(pending) :
         (deleteFoodEntry_response(k, TRUE)
          /\ \E j \in 1..Len(foodEntries) : foodEntries[j] = pending[k].entry) =>
             \E j \in 1..Len(foodEntries) :
                /\ foodEntries[j] = pending[k].entry
                /\ foodEntries' = RemoveAt(foodEntries, j)]_vars

\* C25 as stated: while nobody is logged in, foodEntries is empty and the
\* intake is 0, whatever responses of the ended session arrive.
C25_LedgerEmptyAfterLogout ==
    currentUser = NoUser => (foodEntries = <<>> /\ calorieData.intake = 0)

\* C26 as stated: once the loads of the selected dates have completed, the
\* entries of a selected date that foodEntries holds are those of the date
\* selected last (currentDate), whatever order the responses arrived in.
C26_LastSelectedDateWins ==
    (\A k \in 1..Len(pending) : pending[k].op # "loadFoodEntriesForDate") =>
        \A j \in 1..Len(foodEntries) :
            foodEntries[j].ledger \in EarlierDates => foodEntries[j].ledger = currentDate

\* C29 as stated: once every logFood call that was started has finished, the
\* log button is enabled and shows the label it had before the first call.
C29_LogButtonRestored ==
    (\A k \in 1..Len(pending) : pending[k].op # "logFood") => logButton = LogButtonAtLoad

\* C28 as stated: the snapshot under the key of a date holds entries of that
\* date only; 'viveo_day_<today>' is the key that app.js's autoSaveDayData
\* writes, viveo_data[date] the key that calendar.js's saveDayData writes.
C28_SnapshotHoldsEntriesOfItsDate ==
    /\ viveo_day.saved =>
          \A j \in 1..Len(viveo_day.foodEntries) : viveo_day.foodEntries[j].ledger = Today
    /\ \A date \in DOMAIN viveo_data :
          viveo_data[date].saved =>
             \A j \in 1..Len(viveo_data[date].foodEntries) :
                viveo_data[date].foodEntries[j].ledger = date

(***************************************************************************)
(* Properties of the AI chat.                                              *)
(***************************************************************************)
\* C30: whenever the AI chat panel is open (window.aiChatOpen), somebody is
\* logged in.
C30_ChatOpenOnlyWhenLoggedIn == aiChatOpen => currentUser # NoUser

\* The chat is open in a session that is not the first of the page.
C30_ChatOpenInSession ==
    /\ aiChatOpen
    /\ aiChatPanel = "flex"
    /\ currentUser # NoUser
    /\ foodLogMessage = "Failed to load food entries"
    /\ Len(pending) = 2

(***************************************************************************)
(* Properties of the entries built from backend records.                   *)
(***************************************************************************)
\* C12 as stated: every entry of the ledger has non-negative calories,
\* protein, carbs, fat and fiber, whatever the backend returned.
C12_EntryValuesNonNegative ==
    \A j \in 1..Len(foodEntries) :
        /\ foodEntries[j].calories >= 0
        /\ foodEntries[j].protein >= 0
        /\ foodEntries[j].carbs >= 0
        /\ foodEntries[j].fat >= 0
        /\ foodEntries[j].fiber >= 0

(***************************************************************************)
(* Properties of the ledger across dates.                                  *)
(***************************************************************************)
\* C27 as stated: undo is durable.  Once no request is in flight, every entry
\* of the ledger that came from the backend is held by the backend, also after
\* a confirmed deletion of it has been undone: a reload still shows it and a
\* later deletion of it succeeds.
C27_UndoneEntryIsOnBackend ==
    pending = <<>> =>
        \A j \in 1..Len(foodEntries) :
            foodEntries[j].id.src = "backend" => foodEntries[j].id \in server

\* C15 as stated: under any interleaving of logFood, the date selection and
\* undoLastDelete, an entry that the response of logFood or an undo adds to
\* foodEntries belongs to the date that is displayed (currentDate).
C15_EntryAddedToDisplayedDate ==
    [][((undoLastDelete(TRUE) \/
         \E k \in 1..Len(pending), kind \in {"ok", "rejected"}, raw \in CapacityCatalog :
            logFood_response(k, kind, raw))
        /\ Len(foodEntries') = Len(foodEntries) + 1) =>
          foodEntries'[Len(foodEntries')].ledger = currentDate']_vars

(***************************************************************************)
(* Properties of the profile across users.                                 *)
(***************************************************************************)
\* C14 as stated: once the profile load of the second user's login has
\* completed, userProfile holds the defaults or the defaults with that user's
\* backend profile, and no value that the first user saved.
C14_ProfileOfSecondUserIsOwn ==
    (/\ currentUser = "bob"
     /\ \A k \in 1..Len(pending) : pending[k].op # "loadUserProfile") =>
        userProfile \in {DefaultProfile}
                        \cup {Merge(DefaultProfile, backendProfile) :
                                backendProfile \in BackendProfiles}

====
